---- MODULE Spec2Model ----
(***************************************************************************)
(* Model of chromium-policy-vulnfeed (src/src/main.go, the current         *)
(* revision at lines 271-584): the date-keyed commit cache, its updater    *)
(* updateCache, the lookback getCacheEntry, the advisory built by          *)
(* updateAdvisory, the JSON documents of policy, cache and advisory, and   *)
(* runs of main one after the other on those documents.                    *)
(*                                                                         *)
(* Time is counted in ticks, TicksPerDay ticks to a calendar day.  A date  *)
(* key "2006-01-02" of the cache is represented by the number of its day,  *)
(* so format maps a time to its day number.  The process reads the wall    *)
(* clock once at start-up (now, today) and again at every time.Now() call. *)
(***************************************************************************)
EXTENDS Integers, Sequences, FiniteSets, TLC

VARIABLES
    now,        \* main.go:341  var now = time.Now(), read once at process start
    clock,      \* the wall clock, what time.Now() returns next; never behind now
    pc,         \* position of the call under study ("ready", "done"), or the step
                \* of main that runs next, or where the process ended
    cache,      \* the map[string][]string object handed to the function
    cacheIn,    \* the content of that map when the call started
    d,          \* getCacheEntry's argument d
    reads,      \* the values the call's time.Now() calls returned, in order
    ret,        \* what getCacheEntry returned: [hashes, err]
    repoURL,    \* updateCache's argument repoURL, as a sequence of characters
    branches,   \* updateCache's argument branches
    answers,    \* what the remote answered to the i-th ListCommits call
    out,        \* what updateCache returned: [cache, err], or that it panicked
    out2,       \* what a second execution of the function under study left
    policy,     \* the *Policy loadPolicy returned
    advisory,   \* the *Advisory object of the run
    advisoryIn, \* the content of that object when the call under study started
    policyFile, \* the document at policyPath
    cacheFile,  \* the document at cachePath
    advisoryFile,   \* the document at advisoryPath
    cacheFile0,     \* the document at cachePath when the run started
    advisoryFile0   \* the document at advisoryPath when the run started

\* The state of the functions called on their own.
callVars == <<cache, cacheIn, d, reads, ret, repoURL, branches, answers, out>>

\* The state of a run of main: its objects and the persisted documents.
runVars ==
    <<out2, policy, advisory, advisoryIn, policyFile, cacheFile, advisoryFile,
      cacheFile0, advisoryFile0>>

vars == <<now, clock, pc, callVars, runVars>>

----------------------------------------------------------------------------
(* Bounds of the model. *)

\* Largest lookback d tried; cache keys range from today - MaxD to tomorrow.
MaxD == 2

\* Ticks of the clock in one calendar day.
TicksPerDay == 2

\* Most ticks that pass between process start and the end of a call.
MaxElapsed == 2

\* Most branches in a policy.
MaxBranches == 2

----------------------------------------------------------------------------
(* Go values. *)

\* A []string: Go tells the nil slice from the empty one (reflect.DeepEqual,
\* "== nil", json null against []).
NilList == [isNil |-> TRUE, elems |-> <<>>]

List(s) == [isNil |-> FALSE, elems |-> s]

\* A map[string][]string: a nil map reads like an empty one.
NilMap == [isNil |-> TRUE, m |-> <<>>]

Map(f) == [isNil |-> FALSE, m |-> f]

\* hashes, ok := c[k]  (ok)
MapHas(c, k) == k \in DOMAIN c.m

\* c[k]: the zero value, a nil slice, for a missing key
MapGet(c, k) == IF MapHas(c, k) THEN c.m[k] ELSE NilList

\* c[k] = v on a non-nil map
MapPut(c, k, v) == Map([x \in (DOMAIN c.m) \cup {k} |-> IF x = k THEN v ELSE c.m[x]])

Min(S) == CHOOSE x \in S : \A y \in S : x <= y

Max(S) == CHOOSE x \in S : \A y \in S : x >= y

----------------------------------------------------------------------------
(* Dates. *)

\* main.go:582  format(t): the calendar day of a time
format(t) == t \div TicksPerDay

\* t.AddDate(0, 0, days)
AddDate(t, days) == t + days * TicksPerDay

\* main.go:343  today = format(now)
today == format(now)

----------------------------------------------------------------------------
(* getCacheEntry, main.go:557-580. *)

ErrNone == "nil"

\* main.go:559
ErrInvalid == "can only get cache entries with a positive days difference"

\* main.go:562
ErrPrecondition == "today's entry must exist in the cache"

\* The pair a call returns.
Result(h, e) == [hashes |-> h, err |-> e]

\* Before the call has returned.
NoRet == Result(NilList, "pending")

RECURSIVE scanCloser(_, _, _, _)

\* A lookback that, finding no exact entry, takes the nearest earlier date.
scanEarlier(c, dd, i, rd) ==
    LET earlier == {k \in DOMAIN c.m : k < format(AddDate(rd[1], 0 - dd))}
    IN  IF earlier # {}
        THEN Result(c.m[Max(earlier)], ErrNone)
        ELSE Result(MapGet(c, today), ErrNone)

\* main.go:570-579: the loop "for i := d - 1; i >= 0; i--" from index i on,
\* then the final fallback.  rd[1] is the time.Now() of line 564 and
\* rd[1 + dd - i] the time.Now() of line 572 in the iteration with index i.
scanCloser(c, dd, i, rd) ==
    IF i < 0
    THEN Result(MapGet(c, today), ErrNone)
    ELSE LET targetDate == format(AddDate(rd[1 + dd - i], 0 - i))
         IN  IF MapHas(c, targetDate)
             THEN Result(c.m[targetDate], ErrNone)
             ELSE scanCloser(c, dd, i - 1, rd)

\* A lookback that checks today's entry before the sign of d.
getCacheEntryPreconditionFirst(c, dd, rd) ==
    IF MapGet(c, today).isNil THEN Result(NilList, ErrPrecondition)
    ELSE IF dd < 0 THEN Result(NilList, ErrInvalid)
    ELSE LET targetDate == format(AddDate(rd[1], 0 - dd))
         IN  IF MapHas(c, targetDate)
             THEN Result(c.m[targetDate], ErrNone)
             ELSE scanCloser(c, dd, dd - 1, rd)

\* A lookback without the check of today's entry (as main.go:252-269 was).
getCacheEntryUnchecked(c, dd, rd) ==
    IF dd < 0 THEN Result(NilList, ErrInvalid)
    ELSE LET targetDate == format(AddDate(rd[1], 0 - dd))
         IN  IF MapHas(c, targetDate)
             THEN Result(c.m[targetDate], ErrNone)
             ELSE scanCloser(c, dd, dd - 1, rd)

\* main.go:557-580  getCacheEntry(cache, d), with rd the clock readings of
\* its time.Now() calls.
getCacheEntry(c, dd, rd) ==
    IF dd < 0 THEN Result(NilList, ErrInvalid)
    ELSE IF MapGet(c, today).isNil THEN Result(NilList, ErrPrecondition)
    ELSE LET targetDate == format(AddDate(rd[1], 0 - dd))
         IN  IF MapHas(c, targetDate)
             THEN Result(c.m[targetDate], ErrNone)
             ELSE scanCloser(c, dd, dd - 1, rd)

\* The values n successive time.Now() calls can return: never going back,
\* starting no earlier than the clock stands.
Readings(n) ==
    {s \in [1..n -> clock..(now + MaxElapsed)] : \A i \in 1..(n - 1) : s[i] <= s[i + 1]}

----------------------------------------------------------------------------
(* updateCache, main.go:511-537. *)

\* The error a failed ListCommits call returns.
ErrRemote == "remote error"

\* A ListCommits call that failed.
AnsErr == [kind |-> "err", commits |-> <<>>]

\* A ListCommits call that returned these commit identifiers, newest first.
AnsCommits(s) == [kind |-> "ok", commits |-> s]

\* updateCache returned (c, e).
Returned(c, e) == [cache |-> c, err |-> e, panic |-> FALSE]

\* updateCache did not return: a run-time panic unwound it.
Panicked == [cache |-> NilMap, err |-> "panic", panic |-> TRUE]

\* The map object after the call, and what the call returned.
Outcome(c, o) == [cache |-> c, out |-> o]

RECURSIVE Split(_)

\* strings.Split(s, "/") on a sequence of characters
Split(s) ==
    IF \A i \in 1..Len(s) : s[i] # "/"
    THEN <<s>>
    ELSE LET i == Min({j \in 1..Len(s) : s[j] = "/"})
         IN  <<SubSeq(s, 1, i - 1)>> \o Split(SubSeq(s, i + 1, Len(s)))

RECURSIVE fetchTips(_, _, _, _)

\* main.go:516-527: the loop over branches from the i-th branch on, with the
\* set hashes collected so far.  It ends "ok" with every tip, "err" at the
\* first failed call, or "panic" at commits[0] of an empty answer.
fetchTips(repos, brs, i, hashes) ==
    IF i > Len(brs) THEN [status |-> "ok", hashes |-> hashes]
    ELSE IF repos[i].kind = "err" THEN [status |-> "err", hashes |-> hashes]
    ELSE IF repos[i].commits = <<>> THEN [status |-> "panic", hashes |-> hashes]
    ELSE fetchTips(repos, brs, i + 1, hashes \cup {repos[i].commits[1]})

\* main.go:529-532: "for key := range hashes" visits the keys of a Go map in
\* an order the language leaves open: any sequence holding each key once.
Orders(S) ==
    {s \in [1..Cardinality(S) -> S] : \A i, j \in 1..Cardinality(S) : s[i] = s[j] => i = j}

RECURSIVE tipsOf(_, _)

\* The first commit of each of the first n answers, one per branch.
tipsOf(repos, n) ==
    IF n = 0 THEN <<>> ELSE Append(tipsOf(repos, n - 1), repos[n].commits[1])

\* An updater that records one identifier per branch, without the set
\* (as main.go:200-224 was).
updateCachePerBranch(url, repos, brs, c, order) ==
    LET t == fetchTips(repos, brs, 1, {})
    IN  IF Len(Split(url)) < 2 THEN Outcome(c, Panicked)
        ELSE IF t.status = "panic" THEN Outcome(c, Panicked)
        ELSE IF t.status = "err" THEN Outcome(c, Returned(NilMap, ErrRemote))
        ELSE IF c.isNil THEN Outcome(c, Panicked)
        ELSE LET c2 == MapPut(c, today, List(tipsOf(repos, Len(brs))))
             IN  Outcome(c2, Returned(c2, ErrNone))

\* An updater that returns a new map holding today's entry only.
updateCacheFreshMap(url, repos, brs, c, order) ==
    LET t == fetchTips(repos, brs, 1, {})
    IN  IF Len(Split(url)) < 2 THEN Outcome(c, Panicked)
        ELSE IF t.status = "panic" THEN Outcome(c, Panicked)
        ELSE IF t.status = "err" THEN Outcome(c, Returned(NilMap, ErrRemote))
        ELSE IF c.isNil THEN Outcome(c, Panicked)
        ELSE LET c2 == MapPut(Map(<<>>), today, List(order))
             IN  Outcome(c2, Returned(c2, ErrNone))

\* An updater that stores each tip under today as soon as it is fetched.
updateCacheEager(url, repos, brs, c, order) ==
    LET t == fetchTips(repos, brs, 1, {})
        partial == IF t.hashes = {} \/ c.isNil
                   THEN c
                   ELSE MapPut(c, today, List(CHOOSE o \in Orders(t.hashes) : TRUE))
    IN  IF Len(Split(url)) < 2 THEN Outcome(c, Panicked)
        ELSE IF t.status = "panic" THEN Outcome(partial, Panicked)
        ELSE IF t.status = "err" THEN Outcome(partial, Returned(NilMap, ErrRemote))
        ELSE IF c.isNil THEN Outcome(c, Panicked)
        ELSE LET c2 == MapPut(c, today, List(order))
             IN  Outcome(c2, Returned(c2, ErrNone))

\* An updater that leaves a nil list when it saw no tip.
updateCacheNilEmpty(url, repos, brs, c, order) ==
    LET t == fetchTips(repos, brs, 1, {})
    IN  IF Len(Split(url)) < 2 THEN Outcome(c, Panicked)
        ELSE IF t.status = "panic" THEN Outcome(c, Panicked)
        ELSE IF t.status = "err" THEN Outcome(c, Returned(NilMap, ErrRemote))
        ELSE IF c.isNil THEN Outcome(c, Panicked)
        ELSE LET c2 == MapPut(c, today, IF order = <<>> THEN NilList ELSE List(order))
             IN  Outcome(c2, Returned(c2, ErrNone))

\* An updater that keeps an entry already recorded for today.
updateCacheKeepExisting(url, repos, brs, c, order) ==
    LET t == fetchTips(repos, brs, 1, {})
    IN  IF Len(Split(url)) < 2 THEN Outcome(c, Panicked)
        ELSE IF t.status = "panic" THEN Outcome(c, Panicked)
        ELSE IF t.status = "err" THEN Outcome(c, Returned(NilMap, ErrRemote))
        ELSE IF c.isNil THEN Outcome(c, Panicked)
        ELSE LET c2 == IF MapHas(c, today) THEN c ELSE MapPut(c, today, List(order))
             IN  Outcome(c2, Returned(c2, ErrNone))

\* main.go:511-537  updateCache(repoURL, repos, branches, cache): repos[i] is
\* the remote's answer to the i-th ListCommits call and order the order in
\* which the range over the map hashes yields its keys.
updateCache(url, repos, brs, c, order) ==
    LET t == fetchTips(repos, brs, 1, {})
    IN  IF Len(Split(url)) < 2 THEN Outcome(c, Panicked)               \* s[len(s)-2]
        ELSE IF t.status = "panic" THEN Outcome(c, Panicked)           \* commits[0]
        ELSE IF t.status = "err" THEN Outcome(c, Returned(NilMap, ErrRemote))
        ELSE IF c.isNil THEN Outcome(c, Panicked)                      \* nil map write
        ELSE LET c2 == MapPut(c, today, List(order))
             IN  Outcome(c2, Returned(c2, ErrNone))

----------------------------------------------------------------------------
(* The advisory: createAffectedItem and updateAdvisory, main.go:471-555. *)

\* main.go:342  t.Format(time.RFC3339): the date and the time of day
Timestamp(t) == <<format(t), t % TicksPerDay>>

\* main.go:342  nowTimestamp
nowTimestamp == Timestamp(now)

\* The empty string in a timestamp field.
NoStamp == <<>>

\* main.go:300-307  Policy
Policy(id, repo, days, link, desc, brs) ==
    [ID |-> id, Repository |-> repo, FreshnessDays |-> days, PolicyLink |-> link,
     Description |-> desc, Branches |-> brs]

\* main.go:309-312  Event
Event(fixed, introduced) == [Fixed |-> fixed, Introduced |-> introduced]

\* main.go:314-318  Range
Range(type, repo, events) == [Type |-> type, Repo |-> repo, Events |-> events]

\* main.go:320-322  AffectedItem
AffectedItem(ranges) == [Ranges |-> ranges]

\* main.go:324-332  Advisory{}: the zero value
ZeroAdvisory ==
    [SchemaVersion |-> "", ID |-> "", Modified |-> NoStamp, Published |-> NoStamp,
     Summary |-> "", Details |-> "", Affected |-> NilList]

\* An assembler that drops repeated commit identifiers.
createAffectedItemDistinct(p, hashes) ==
    LET h == hashes.elems
        keep == {i \in 1..Len(h) : \A j \in 1..(i - 1) : h[j] # h[i]}
        RECURSIVE pick(_)
        pick(i) == IF i > Len(h) THEN <<>>
                   ELSE (IF i \in keep THEN <<Event(h[i], "")>> ELSE <<>>) \o pick(i + 1)
    IN  AffectedItem(List(<<Range("GIT", p.Repository, List(<<Event("", "0")>> \o pick(1)))>>))

\* main.go:539-555  createAffectedItem(policy, hashes); it returns no error.
createAffectedItem(p, hashes) ==
    LET fixedEvents == [i \in 1..Len(hashes.elems) |-> Event(hashes.elems[i], "")]
    IN  AffectedItem(List(<<Range("GIT", p.Repository,
                                  List(<<Event("", "0")>> \o fixedEvents))>>))

\* What updateAdvisory leaves and returns: the advisory object, the error,
\* and what its call of getCacheEntry returned.
Updated(a, e, r) == [adv |-> a, err |-> e, lookup |-> r]

\* main.go:475
ErrLookup == "failed to get cache entry"

\* An update that lists today's entry whatever the freshness threshold.
updateAdvisoryToday(a, p, c, rd) ==
    LET r == getCacheEntry(c, p.FreshnessDays, rd)
    IN  IF r.err # ErrNone THEN Updated(a, ErrLookup, r)
        ELSE Updated([a EXCEPT !.Published = IF @ = NoStamp THEN nowTimestamp ELSE @,
                               !.ID = p.ID,
                               !.Modified = nowTimestamp,
                               !.Summary = p.PolicyLink,
                               !.Details = p.Description,
                               !.Affected = List(<<createAffectedItem(p, MapGet(c, today))>>)],
                     ErrNone, r)

\* An update that stamps published on every run.
updateAdvisoryRestamp(a, p, c, rd) ==
    LET r == getCacheEntry(c, p.FreshnessDays, rd)
    IN  IF r.err # ErrNone THEN Updated(a, ErrLookup, r)
        ELSE Updated([a EXCEPT !.Published = nowTimestamp,
                               !.ID = p.ID,
                               !.Modified = nowTimestamp,
                               !.Summary = p.PolicyLink,
                               !.Details = p.Description,
                               !.Affected = List(<<createAffectedItem(p, r.hashes)>>)],
                     ErrNone, r)

\* An update that appends the affected item to the list the advisory had.
updateAdvisoryAppend(a, p, c, rd) ==
    LET r == getCacheEntry(c, p.FreshnessDays, rd)
    IN  IF r.err # ErrNone THEN Updated(a, ErrLookup, r)
        ELSE Updated([a EXCEPT !.Published = IF @ = NoStamp THEN nowTimestamp ELSE @,
                               !.ID = p.ID,
                               !.Modified = nowTimestamp,
                               !.Summary = p.PolicyLink,
                               !.Details = p.Description,
                               !.Affected = List(@.elems \o <<createAffectedItem(p, r.hashes)>>)],
                     ErrNone, r)

\* main.go:472-494  updateAdvisory(advisory, policy, cache), with rd the clock
\* readings of getCacheEntry.  On an error the advisory object is untouched.
updateAdvisory(a, p, c, rd) ==
    LET r == getCacheEntry(c, p.FreshnessDays, rd)
    IN  IF r.err # ErrNone THEN Updated(a, ErrLookup, r)
        ELSE Updated([a EXCEPT !.Published = IF @ = NoStamp THEN nowTimestamp ELSE @,
                               !.ID = p.ID,
                               !.Modified = nowTimestamp,
                               !.Summary = p.PolicyLink,
                               !.Details = p.Description,
                               !.Affected = List(<<createAffectedItem(p, r.hashes)>>)],
                     ErrNone, r)

----------------------------------------------------------------------------
(* JSON documents: what json.MarshalIndent writes and json.Unmarshal reads. *)

\* The JSON values.  An object is the sequence of its members, each a
\* <<name, value>> pair, in the order of the text.
JNull == [kind |-> "null"]

JString(s) == [kind |-> "string", value |-> s]

JNumber(n) == [kind |-> "number", value |-> n]

JArray(items) == [kind |-> "array", items |-> items]

JObject(members) == [kind |-> "object", members |-> members]

\* encoding/json: the names of an object's members
Names(o) == {o.members[i][1] : i \in DOMAIN o.members}

\* encoding/json: the member decoded for a name is the last one of that name;
\* a name that is missing leaves the Go value as it was, as null does.
Member(o, n) ==
    IF n \in Names(o)
    THEN o.members[Max({i \in DOMAIN o.members : o.members[i][1] = n})][2]
    ELSE JNull

\* encoding/json sorts the keys of a map.
RECURSIVE SortedKeys(_)
SortedKeys(S) == IF S = {} THEN <<>> ELSE <<Min(S)>> \o SortedKeys(S \ {Min(S)})

\* A decoder that reads null for a list as the empty list.
unmarshalStringsEmpty(doc) ==
    IF doc.kind = "null" THEN List(<<>>)
    ELSE List([i \in 1..Len(doc.items) |->
                  IF doc.items[i].kind = "string" THEN doc.items[i].value ELSE ""])

\* json.Marshal of a []string: null for the nil slice.
marshalStrings(l) ==
    IF l.isNil THEN JNull
    ELSE JArray([i \in 1..Len(l.elems) |-> JString(l.elems[i])])

\* json.Unmarshal into a string: null leaves the zero value.
stringOk(doc) == doc.kind \in {"string", "null"}

asString(doc, zero) == IF doc.kind = "string" THEN doc.value ELSE zero

\* json.Unmarshal into a fresh []string.
stringsOk(doc) ==
    \/ doc.kind = "null"
    \/ doc.kind = "array" /\ \A i \in 1..Len(doc.items) : stringOk(doc.items[i])

unmarshalStrings(doc) ==
    IF doc.kind = "null" THEN NilList
    ELSE List([i \in 1..Len(doc.items) |-> asString(doc.items[i], "")])

\* What a load returns: the value and the error.
Loaded(v, e) == [val |-> v, err |-> e]

ErrParse == "json: cannot unmarshal"

ErrRead == "read error"

ErrWrite == "write error"

\* main.go:439  json.MarshalIndent(cacheData): null for the nil map.
marshalCache(c) ==
    IF c.isNil THEN JNull
    ELSE LET ks == SortedKeys(DOMAIN c.m)
         IN  JObject([i \in 1..Len(ks) |-> <<ks[i], marshalStrings(c.m[ks[i]])>>])

\* main.go:422,431  json.Unmarshal(data, &cacheData) into make(map): null sets
\* the map to nil, an object fills it.
unmarshalCache(doc) ==
    CASE doc.kind = "null" -> Loaded(NilMap, ErrNone)
      [] doc.kind = "object" /\ (\A k \in Names(doc) : stringsOk(Member(doc, k))) ->
            Loaded(Map([k \in Names(doc) |-> unmarshalStrings(Member(doc, k))]), ErrNone)
      [] OTHER -> Loaded(NilMap, ErrParse)

\* json.Unmarshal into a struct: null leaves it as it is, an object sets the
\* fields it names.
structOk(doc) == doc.kind \in {"object", "null"}

Fields(doc) == IF doc.kind = "object" THEN doc ELSE JObject(<<>>)

\* main.go:309-312  Event: both fields are omitempty
marshalEvent(e) ==
    JObject((IF e.Fixed # "" THEN <<<<"fixed", JString(e.Fixed)>>>> ELSE <<>>)
            \o (IF e.Introduced # "" THEN <<<<"introduced", JString(e.Introduced)>>>>
                ELSE <<>>))

eventOk(doc) ==
    /\ structOk(doc)
    /\ stringOk(Member(Fields(doc), "fixed"))
    /\ stringOk(Member(Fields(doc), "introduced"))

unmarshalEvent(doc) ==
    Event(asString(Member(Fields(doc), "fixed"), ""),
          asString(Member(Fields(doc), "introduced"), ""))

\* json.Marshal and json.Unmarshal of a []Event: null is the nil slice.
marshalEvents(l) ==
    IF l.isNil THEN JNull ELSE JArray([i \in 1..Len(l.elems) |-> marshalEvent(l.elems[i])])

eventsOk(doc) ==
    \/ doc.kind = "null"
    \/ doc.kind = "array" /\ \A i \in 1..Len(doc.items) : eventOk(doc.items[i])

unmarshalEvents(doc) ==
    IF doc.kind = "null" THEN NilList
    ELSE List([i \in 1..Len(doc.items) |-> unmarshalEvent(doc.items[i])])

\* main.go:314-318  Range
marshalRange(r) ==
    JObject(<< <<"type", JString(r.Type)>>, <<"repo", JString(r.Repo)>>,
               <<"events", marshalEvents(r.Events)>> >>)

rangeOk(doc) ==
    /\ structOk(doc)
    /\ stringOk(Member(Fields(doc), "type"))
    /\ stringOk(Member(Fields(doc), "repo"))
    /\ eventsOk(Member(Fields(doc), "events"))

unmarshalRange(doc) ==
    Range(asString(Member(Fields(doc), "type"), ""),
          asString(Member(Fields(doc), "repo"), <<>>),
          unmarshalEvents(Member(Fields(doc), "events")))

\* json.Marshal and json.Unmarshal of a []Range: null is the nil slice.
marshalRanges(l) ==
    IF l.isNil THEN JNull ELSE JArray([i \in 1..Len(l.elems) |-> marshalRange(l.elems[i])])

rangesOk(doc) ==
    \/ doc.kind = "null"
    \/ doc.kind = "array" /\ \A i \in 1..Len(doc.items) : rangeOk(doc.items[i])

unmarshalRanges(doc) ==
    IF doc.kind = "null" THEN NilList
    ELSE List([i \in 1..Len(doc.items) |-> unmarshalRange(doc.items[i])])

\* main.go:320-322  AffectedItem
marshalAffectedItem(it) == JObject(<< <<"ranges", marshalRanges(it.Ranges)>> >>)

affectedItemOk(doc) ==
    structOk(doc) /\ rangesOk(Member(Fields(doc), "ranges"))

unmarshalAffectedItem(doc) ==
    AffectedItem(unmarshalRanges(Member(Fields(doc), "ranges")))

\* json.Marshal and json.Unmarshal of a []AffectedItem: null is the nil slice.
marshalAffectedItems(l) ==
    IF l.isNil THEN JNull ELSE JArray([i \in 1..Len(l.elems) |-> marshalAffectedItem(l.elems[i])])

affectedItemsOk(doc) ==
    \/ doc.kind = "null"
    \/ doc.kind = "array" /\ \A i \in 1..Len(doc.items) : affectedItemOk(doc.items[i])

unmarshalAffectedItems(doc) ==
    IF doc.kind = "null" THEN NilList
    ELSE List([i \in 1..Len(doc.items) |-> unmarshalAffectedItem(doc.items[i])])

\* main.go:498  json.MarshalIndent(advisory): the fields in declaration order
marshalAdvisory(a) ==
    JObject(<< <<"schema_version", JString(a.SchemaVersion)>>,
               <<"id", JString(a.ID)>>,
               <<"modified", JString(a.Modified)>>,
               <<"published", JString(a.Published)>>,
               <<"summary", JString(a.Summary)>>,
               <<"details", JString(a.Details)>>,
               <<"affected", marshalAffectedItems(a.Affected)>> >>)

\* main.go:453-455  json.Unmarshal(advisoryData, &advisory) into the zero value
unmarshalAdvisory(doc) ==
    LET o == Fields(doc)
        ok == /\ structOk(doc)
              /\ \A n \in {"schema_version", "id", "modified", "published", "summary",
                           "details"} : stringOk(Member(o, n))
              /\ affectedItemsOk(Member(o, "affected"))
    IN  IF ~ok THEN Loaded(ZeroAdvisory, ErrParse)
        ELSE Loaded([SchemaVersion |-> asString(Member(o, "schema_version"), ""),
                     ID |-> asString(Member(o, "id"), ""),
                     Modified |-> asString(Member(o, "modified"), NoStamp),
                     Published |-> asString(Member(o, "published"), NoStamp),
                     Summary |-> asString(Member(o, "summary"), ""),
                     Details |-> asString(Member(o, "details"), ""),
                     Affected |-> unmarshalAffectedItems(Member(o, "affected"))],
                    ErrNone)

\* main.go:412-413  json.Unmarshal(data, &policy) into the zero value
unmarshalPolicy(doc) ==
    LET o == Fields(doc)
        ok == /\ structOk(doc)
              /\ \A n \in {"id", "repository", "policy_link", "description"} :
                    stringOk(Member(o, n))
              /\ Member(o, "freshness_days").kind \in {"number", "null"}
              /\ stringsOk(Member(o, "branches"))
        days == Member(o, "freshness_days")
    IN  IF ~ok THEN Loaded(Policy("", <<>>, 0, "", "", <<>>), ErrParse)
        ELSE Loaded(Policy(asString(Member(o, "id"), ""),
                           asString(Member(o, "repository"), <<>>),
                           IF days.kind = "number" THEN days.value ELSE 0,
                           asString(Member(o, "policy_link"), ""),
                           asString(Member(o, "description"), ""),
                           unmarshalStrings(Member(o, "branches")).elems),
                    ErrNone)

----------------------------------------------------------------------------
(* The three documents on disk, and loading and saving them. *)

\* A path with no document.
Absent == [kind |-> "absent", doc |-> JNull]

\* A document os.ReadFile cannot read.
Unreadable == [kind |-> "unreadable", doc |-> JNull]

\* Bytes that are not a JSON text: a torn write, or any other text.
Corrupt == [kind |-> "corrupt", doc |-> JNull]

\* A JSON text.
Json(doc) == [kind |-> "json", doc |-> doc]

\* os.WriteFile opens the path with O_TRUNC and then writes: it succeeds; or
\* it fails to open and the document is as it was; or it fails while writing
\* and what is left is a part of the text.
WriteOutcomes == {"written", "refused", "torn"}

WriteFile(file, doc, outcome) ==
    CASE outcome = "written" -> [file |-> Json(doc), err |-> ErrNone]
      [] outcome = "refused" -> [file |-> file, err |-> ErrWrite]
      [] outcome = "torn" -> [file |-> Corrupt, err |-> ErrWrite]

\* main.go:404-419  loadPolicy()
loadPolicy(file) ==
    CASE file.kind = "json" -> unmarshalPolicy(file.doc)
      [] file.kind = "corrupt" -> Loaded(Policy("", <<>>, 0, "", "", <<>>), ErrParse)
      [] OTHER -> Loaded(Policy("", <<>>, 0, "", "", <<>>), ErrRead)

\* A loader for which a missing cache file is an error.
loadCacheStrict(file) ==
    CASE file.kind = "json" -> unmarshalCache(file.doc)
      [] file.kind = "corrupt" -> Loaded(NilMap, ErrParse)
      [] OTHER -> Loaded(NilMap, ErrRead)

\* main.go:421-436  loadCache(): on an error the map returned is nil.
loadCache(file) ==
    CASE file.kind = "absent" -> Loaded(Map(<<>>), ErrNone)
      [] file.kind = "json" -> unmarshalCache(file.doc)
      [] file.kind = "corrupt" -> Loaded(NilMap, ErrParse)
      [] OTHER -> Loaded(NilMap, ErrRead)

\* main.go:450-469  loadAdvisory()
loadAdvisory(file) ==
    CASE file.kind = "absent" -> Loaded([ZeroAdvisory EXCEPT !.Published = nowTimestamp],
                                        ErrNone)
      [] file.kind = "json" -> unmarshalAdvisory(file.doc)
      [] file.kind = "corrupt" -> Loaded(ZeroAdvisory, ErrParse)
      [] OTHER -> Loaded(ZeroAdvisory, ErrRead)

\* main.go:497-508  saveAdvisory(advisory)
saveAdvisory(a, file, outcome) == WriteFile(file, marshalAdvisory(a), outcome)

\* main.go:438-448  saveCache(cacheData)
saveCache(c, file, outcome) == WriteFile(file, marshalCache(c), outcome)

\* The commit lists a cache entry may hold (empty, one commit, a repeated one).
CommitLists == {<<>>, <<"sha1">>, <<"sha2", "sha2">>}

\* json null, [] and lists.
EntryValues == {NilList} \cup {List(s) : s \in CommitLists}

\* The process starts on day 0: at its first or at its last tick.
StartTimes == {0, TicksPerDay - 1}

\* Date keys: the lookback window of day 0, and tomorrow.
Keys == (0 - MaxD)..1

Caches ==
    {NilMap} \cup {Map(f) : f \in UNION {[S -> EntryValues] : S \in SUBSET Keys}}

\* Before updateCache has returned.
NoOut == Returned(NilMap, "pending")

\* What the remote may answer to one ListCommits call.
Answers ==
    {AnsErr, AnsCommits(<<>>), AnsCommits(<<"sha1">>), AnsCommits(<<"sha2", "sha1">>)}

\* Branch lists: n distinct branches, named by their number.
BranchLists == {[i \in 1..n |-> i] : n \in 0..MaxBranches}

\* Repository locators: "o/r" and one without a slash.
RepoURLs == {<<"o", "/", "r">>, <<"r">>}

\* Date keys of the caches handed to updateCache: yesterday, today, tomorrow.
UpdateKeys == {0 - 1, 0, 1}

UpdateCaches ==
    {NilMap} \cup {Map(f) : f \in UNION {[S -> EntryValues] : S \in SUBSET UpdateKeys}}

\* Before loadPolicy has returned.
NoPolicy == Policy("", <<>>, 0, "", "", <<>>)

\* main.go:368-399: each step's error makes main panic; where pc stands after
\* the panic names the step that failed.
FailedAt ==
    [loadPolicy |-> "loadPolicy failed", loadCache |-> "loadCache failed",
     loadAdvisory |-> "loadAdvisory failed", updateCache |-> "updateCache failed",
     updateAdvisory |-> "updateAdvisory failed", saveAdvisory |-> "saveAdvisory failed",
     saveCache |-> "saveCache failed"]

\* The process has exited: main returned, or a step made it panic.
Ended == {"done"} \cup {FailedAt[s] : s \in DOMAIN FailedAt}

\* The run-level state of a function called on its own: no run, no documents.
NoRun ==
    /\ out2 = NoOut
    /\ policy = NoPolicy
    /\ advisory = ZeroAdvisory
    /\ advisoryIn = ZeroAdvisory
    /\ policyFile = Absent
    /\ cacheFile = Absent
    /\ advisoryFile = Absent
    /\ cacheFile0 = Absent
    /\ advisoryFile0 = Absent

----------------------------------------------------------------------------
(* The lookback called on any cache with any d. *)

InitLookup ==
    /\ now \in StartTimes
    /\ clock = now
    /\ pc = "ready"
    /\ cache \in Caches
    /\ cacheIn = cache
    /\ d \in (0 - MaxD)..MaxD
    /\ reads = <<>>
    /\ ret = NoRet
    /\ repoURL = <<>>
    /\ branches = <<>>
    /\ answers = <<>>
    /\ out = NoOut
    /\ NoRun

\* Time passes before the call.
Tick ==
    /\ pc = "ready"
    /\ clock < now + MaxElapsed
    /\ clock' = clock + 1
    /\ UNCHANGED <<now, pc, callVars, runVars>>

\* getCacheEntry(cache, d) runs to its return.
GetCacheEntry ==
    /\ pc = "ready"
    /\ \E rd \in Readings(IF d < 0 THEN 0 ELSE d + 1) :
          /\ reads' = rd
          /\ ret' = getCacheEntry(cache, d, rd)
          /\ clock' = IF rd = <<>> THEN clock ELSE rd[Len(rd)]
    /\ pc' = "done"
    /\ UNCHANGED <<now, cache, cacheIn, d, repoURL, branches, answers, out, runVars>>

NextLookup == Tick \/ GetCacheEntry

SpecLookup == InitLookup /\ [][NextLookup]_vars

----------------------------------------------------------------------------
(* updateCache called on any cache, branch list and remote. *)

InitUpdate ==
    /\ now \in StartTimes
    /\ clock = now
    /\ pc = "ready"
    /\ cache \in UpdateCaches
    /\ cacheIn = cache
    /\ d = 0
    /\ reads = <<>>
    /\ ret = NoRet
    /\ repoURL \in RepoURLs
    /\ branches \in BranchLists
    /\ answers \in [1..Len(branches) -> Answers]
    /\ out = NoOut
    /\ NoRun

\* updateCache(repoURL, repos, branches, cache) runs to its return or panic.
UpdateCache ==
    /\ pc = "ready"
    /\ \E order \in Orders(fetchTips(answers, branches, 1, {}).hashes) :
          LET r == updateCache(repoURL, answers, branches, cache, order)
          IN  cache' = r.cache /\ out' = r.out
    /\ pc' = "done"
    /\ UNCHANGED <<now, clock, cacheIn, d, reads, ret, repoURL, branches, answers>>
    /\ UNCHANGED runVars

\* updateCache runs once more on the same locator, branches, remote answers
\* and cache content.
UpdateCacheAgain ==
    /\ pc = "done"
    /\ \E order \in Orders(fetchTips(answers, branches, 1, {}).hashes) :
          out2' = updateCache(repoURL, answers, branches, cacheIn, order).out
    /\ pc' = "again"
    /\ UNCHANGED <<now, clock, callVars, policy, advisory, advisoryIn, policyFile,
                   cacheFile, advisoryFile, cacheFile0, advisoryFile0>>

NextUpdate == Tick \/ UpdateCache \/ UpdateCacheAgain

SpecUpdate == InitUpdate /\ [][NextUpdate]_vars

----------------------------------------------------------------------------
(* updateAdvisory called on any advisory, policy and cache. *)

\* A timestamp of the day before day 0.
OldStamp == Timestamp(0 - TicksPerDay)

\* An advisory written by an earlier run, for another policy and commit.
OldAdvisory ==
    [SchemaVersion |-> "1.0", ID |-> "oldID", Modified |-> OldStamp,
     Published |-> OldStamp, Summary |-> "oldLink", Details |-> "oldDescription",
     Affected |-> List(<<createAffectedItem(Policy("", <<"x">>, 0, "", "", <<>>),
                                            List(<<"oldsha">>))>>)]

\* The advisories updateAdvisory may be handed: the zero value, a fresh one
\* (as loadAdvisory makes it for a missing file), one with a schema version
\* only, one written before, and one with the published timestamp and schema
\* version of that one and nothing else.
PriorAdvisories ==
    {ZeroAdvisory,
     [ZeroAdvisory EXCEPT !.Published = nowTimestamp],
     [ZeroAdvisory EXCEPT !.SchemaVersion = "1.0"],
     OldAdvisory,
     [OldAdvisory EXCEPT !.ID = "otherID", !.Modified = NoStamp, !.Summary = "",
                         !.Details = "", !.Affected = NilList]}

\* Policies for updateAdvisory, which does not read the branches.
AdvisoryPolicies ==
    {Policy("policyID", repo, days, "policyLink", "policyDescription", <<>>) :
        repo \in RepoURLs, days \in (0 - MaxD)..MaxD}

InitAdvisory ==
    /\ now \in StartTimes
    /\ clock = now
    /\ pc = "updateAdvisory"
    /\ cache \in UpdateCaches
    /\ cacheIn = cache
    /\ policy \in AdvisoryPolicies
    /\ d = policy.FreshnessDays
    /\ advisory \in PriorAdvisories
    /\ advisoryIn = advisory
    /\ reads = <<>>
    /\ ret = NoRet
    /\ repoURL = <<>>
    /\ branches = <<>>
    /\ answers = <<>>
    /\ out = NoOut
    /\ out2 = NoOut
    /\ policyFile = Absent
    /\ cacheFile = Absent
    /\ advisoryFile = Absent
    /\ cacheFile0 = Absent
    /\ advisoryFile0 = Absent

\* updateAdvisory(advisory, policy, cache) runs to its return; on an error
\* main panics (main.go:388-391).
UpdateAdvisory ==
    /\ pc = "updateAdvisory"
    /\ \E rd \in Readings(IF policy.FreshnessDays < 0 THEN 0 ELSE policy.FreshnessDays + 1) :
          LET u == updateAdvisory(advisory, policy, cache, rd)
          IN  /\ advisory' = u.adv
              /\ ret' = u.lookup
              /\ reads' = rd
              /\ clock' = IF rd = <<>> THEN clock ELSE rd[Len(rd)]
              /\ pc' = IF u.err = ErrNone THEN "saveAdvisory" ELSE FailedAt.updateAdvisory
    /\ d' = policy.FreshnessDays
    /\ UNCHANGED <<now, cache, cacheIn, repoURL, branches, answers, out, out2, policy,
                   advisoryIn, policyFile, cacheFile, advisoryFile, cacheFile0,
                   advisoryFile0>>

\* What the second update was handed and what it left.
Compared(prior, a) == [prior |-> prior, adv |-> a]

\* updateAdvisory runs once more with the same policy, cache and clock
\* readings, on another advisory with the same published timestamp.
UpdateAdvisoryOther ==
    /\ pc = "saveAdvisory"
    /\ \E other \in PriorAdvisories :
          /\ other.Published = advisoryIn.Published
          /\ out2' = Compared(other, updateAdvisory(other, policy, cache, reads).adv)
    /\ pc' = "compared"
    /\ UNCHANGED <<now, clock, callVars, policy, advisory, advisoryIn, policyFile,
                   cacheFile, advisoryFile, cacheFile0, advisoryFile0>>

NextAdvisory == UpdateAdvisory \/ UpdateAdvisoryOther

SpecAdvisory == InitAdvisory /\ [][NextAdvisory]_vars

----------------------------------------------------------------------------
(* Runs of main, main.go:354-402, one after the other on the same documents. *)

\* Last day on which a run starts.
LastDay == 1

\* A run starts at the first tick of a day, or at the last tick of day 0.
RunStarts == StartTimes \cup {k * TicksPerDay : k \in 0..LastDay}

\* The policy document an author writes for a policy.
PolicyDoc(p) ==
    JObject(<< <<"id", JString(p.ID)>>,
               <<"repository", JString(p.Repository)>>,
               <<"freshness_days", JNumber(p.FreshnessDays)>>,
               <<"policy_link", JString(p.PolicyLink)>>,
               <<"description", JString(p.Description)>>,
               <<"branches", JArray([i \in 1..Len(p.Branches) |-> JString(p.Branches[i])])>> >>)

\* Policies of the runs: a lookback of one day over MaxBranches branches, no
\* lookback, a negative freshness, and a locator without a slash.
RunPolicies ==
    {Policy("policyID", <<"o", "/", "r">>, 1, "policyLink", "policyDescription",
            [i \in 1..MaxBranches |-> i]),
     Policy("policyID", <<"o", "/", "r">>, 0, "policyLink", "policyDescription", <<1>>),
     Policy("policyID", <<"o", "/", "r">>, 0 - 1, "policyLink", "policyDescription", <<1>>),
     Policy("policyID", <<"r">>, 1, "policyLink", "policyDescription", <<1>>)}

\* The policy path: no document, a text that is not JSON, a policy, or a
\* document that names the policy and the repository only.
PolicyFiles ==
    {Absent, Corrupt,
     Json(JObject(<< <<"id", JString("policyID")>>,
                     <<"repository", JString(<<"o", "/", "r">>)>> >>))}
    \cup {Json(PolicyDoc(p)) : p \in RunPolicies}

\* The cache path before the first run: no document, a text that is not
\* JSON, null, an entry of the day before that repeats a commit, or a null
\* entry of the day before next to an entry of day 0.
CacheFiles ==
    {Absent, Corrupt, Json(JNull),
     Json(marshalCache(Map((0 - 1) :> List(<<"sha2", "sha2">>)))),
     Json(marshalCache(Map(((0 - 1) :> NilList) @@ (0 :> List(<<"sha1">>)))))}

\* The advisory path before the first run: no document, an unreadable one,
\* one with a schema version only, or an advisory written before.
AdvisoryFiles ==
    {Absent, Unreadable,
     Json(JObject(<< <<"schema_version", JString("1.0")>> >>)),
     Json(marshalAdvisory(OldAdvisory))}

\* The objects of a process that has loaded nothing yet.
Fresh(c, cIn, dd, rd, r, url, brs, ans, o, o2, p, a, aIn) ==
    /\ c = NilMap
    /\ cIn = NilMap
    /\ dd = 0
    /\ rd = <<>>
    /\ r = NoRet
    /\ url = <<>>
    /\ brs = <<>>
    /\ ans = <<>>
    /\ o = NoOut
    /\ o2 = NoOut
    /\ p = NoPolicy
    /\ a = ZeroAdvisory
    /\ aIn = ZeroAdvisory

Init ==
    /\ now = 0
    /\ clock = now
    /\ pc = "loadPolicy"
    /\ policyFile \in PolicyFiles
    /\ cacheFile \in CacheFiles
    /\ advisoryFile \in AdvisoryFiles
    /\ cacheFile0 = cacheFile
    /\ advisoryFile0 = advisoryFile
    /\ Fresh(cache, cacheIn, d, reads, ret, repoURL, branches, answers, out, out2,
             policy, advisory, advisoryIn)

\* A new process starts: it reads the clock, and holds none of the objects
\* of the process before it.
StartRun ==
    /\ pc \in Ended
    /\ \E t \in RunStarts : t > now /\ t >= clock /\ now' = t /\ clock' = t
    /\ pc' = "loadPolicy"
    /\ cacheFile0' = cacheFile
    /\ advisoryFile0' = advisoryFile
    /\ Fresh(cache', cacheIn', d', reads', ret', repoURL', branches', answers', out',
             out2', policy', advisory', advisoryIn')
    /\ UNCHANGED <<policyFile, cacheFile, advisoryFile>>

\* main.go:368-371
LoadPolicy ==
    /\ pc = "loadPolicy"
    /\ LET r == loadPolicy(policyFile)
       IN  /\ policy' = r.val
           /\ pc' = IF r.err = ErrNone THEN "loadCache" ELSE FailedAt.loadPolicy
    /\ UNCHANGED <<now, clock, callVars, out2, advisory, advisoryIn, policyFile,
                   cacheFile, advisoryFile, cacheFile0, advisoryFile0>>

\* main.go:373-376
LoadCache ==
    /\ pc = "loadCache"
    /\ LET r == loadCache(cacheFile)
       IN  /\ cache' = r.val
           /\ pc' = IF r.err = ErrNone THEN "loadAdvisory" ELSE FailedAt.loadCache
    /\ UNCHANGED <<now, clock, cacheIn, d, reads, ret, repoURL, branches, answers, out,
                   runVars>>

\* main.go:378-381
LoadAdvisory ==
    /\ pc = "loadAdvisory"
    /\ LET r == loadAdvisory(advisoryFile)
       IN  /\ advisory' = r.val
           /\ pc' = IF r.err = ErrNone THEN "updateCache" ELSE FailedAt.loadAdvisory
    /\ UNCHANGED <<now, clock, callVars, out2, policy, advisoryIn, policyFile,
                   cacheFile, advisoryFile, cacheFile0, advisoryFile0>>

\* main.go:382-386: updateCache on the policy's repository and branches, the
\* remote answering each ListCommits call as it will.
CallUpdateCache ==
    /\ pc = "updateCache"
    /\ \E ans \in [1..Len(policy.Branches) -> Answers] :
          \E order \in Orders(fetchTips(ans, policy.Branches, 1, {}).hashes) :
             LET r == updateCache(policy.Repository, ans, policy.Branches, cache, order)
             IN  /\ answers' = ans
                 /\ cache' = r.cache
                 /\ out' = r.out
                 /\ pc' = IF ~r.out.panic /\ r.out.err = ErrNone
                          THEN "updateAdvisory" ELSE FailedAt.updateCache
    /\ repoURL' = policy.Repository
    /\ branches' = policy.Branches
    /\ cacheIn' = cache
    /\ UNCHANGED <<now, clock, d, reads, ret, runVars>>

\* main.go:393-395
SaveAdvisory ==
    /\ pc = "saveAdvisory"
    /\ \E outcome \in WriteOutcomes :
          LET w == saveAdvisory(advisory, advisoryFile, outcome)
          IN  /\ advisoryFile' = w.file
              /\ pc' = IF w.err = ErrNone THEN "saveCache" ELSE FailedAt.saveAdvisory
    /\ UNCHANGED <<now, clock, callVars, out2, policy, advisory, advisoryIn, policyFile,
                   cacheFile, cacheFile0, advisoryFile0>>

\* main.go:397-399
SaveCache ==
    /\ pc = "saveCache"
    /\ \E outcome \in WriteOutcomes :
          LET w == saveCache(cache, cacheFile, outcome)
          IN  /\ cacheFile' = w.file
              /\ pc' = IF w.err = ErrNone THEN "done" ELSE FailedAt.saveCache
    /\ UNCHANGED <<now, clock, callVars, out2, policy, advisory, advisoryIn, policyFile,
                   advisoryFile, cacheFile0, advisoryFile0>>

Next ==
    \/ StartRun
    \/ LoadPolicy
    \/ LoadCache
    \/ LoadAdvisory
    \/ CallUpdateCache
    \/ UpdateAdvisory
    \/ SaveAdvisory
    \/ SaveCache

Spec == Init /\ [][Next]_vars

----------------------------------------------------------------------------
(* Saving any cache and advisory, then loading them in a later process. *)

\* The caches saved: those handed to updateCache, and one whose entries are
\* null, empty, and two commits in an order that is not the sorted one.
RoundTripCaches ==
    UpdateCaches
    \cup {Map(((0 - 1) :> NilList) @@ (0 :> List(<<>>)) @@ (1 :> List(<<"sha2", "sha1">>)))}

\* The advisories saved: those handed to updateAdvisory, one as updateAdvisory
\* leaves it, and ones with empty and nil lists and with empty events.
RoundTripAdvisories ==
    PriorAdvisories
    \cup {[OldAdvisory EXCEPT !.Affected =
              List(<<createAffectedItem(Policy("", <<"o", "/", "r">>, 0, "", "", <<>>),
                                        List(<<"sha2", "sha1">>))>>)],
          [OldAdvisory EXCEPT !.Affected = List(<<>>)],
          [OldAdvisory EXCEPT !.Affected = List(<<AffectedItem(NilList)>>)],
          [OldAdvisory EXCEPT !.Affected = List(<<AffectedItem(List(<<>>))>>)],
          [OldAdvisory EXCEPT !.Affected =
              List(<<AffectedItem(List(<<Range("", <<>>, NilList),
                                         Range("GIT", <<"r">>, List(<<>>)),
                                         Range("GIT", <<"r">>,
                                               List(<<Event("", ""),
                                                      Event("sha1", "0")>>))>>))>>)]}

InitRoundTrip ==
    /\ now = 0
    /\ clock = now
    /\ pc = "saveAdvisory"
    /\ cache \in RoundTripCaches
    /\ cacheIn = cache
    /\ advisory \in RoundTripAdvisories
    /\ advisoryIn = advisory
    /\ d = 0
    /\ reads = <<>>
    /\ ret = NoRet
    /\ repoURL = <<>>
    /\ branches = <<>>
    /\ answers = <<>>
    /\ out = NoOut
    /\ out2 = NoOut
    /\ policy = NoPolicy
    /\ policyFile = Absent
    /\ cacheFile = Absent
    /\ advisoryFile = Absent
    /\ cacheFile0 = Absent
    /\ advisoryFile0 = Absent

\* A later process, which holds none of the saved objects, is about to load
\* the documents.
Reopen ==
    /\ pc = "done"
    /\ pc' = "loadCache"
    /\ cache' = NilMap
    /\ advisory' = ZeroAdvisory
    /\ UNCHANGED <<now, clock, cacheIn, d, reads, ret, repoURL, branches, answers, out,
                   out2, policy, advisoryIn, policyFile, cacheFile, advisoryFile,
                   cacheFile0, advisoryFile0>>

NextRoundTrip == SaveAdvisory \/ SaveCache \/ Reopen \/ LoadCache \/ LoadAdvisory

SpecRoundTrip == InitRoundTrip /\ [][NextRoundTrip]_vars

----------------------------------------------------------------------------
(* Claims about getCacheEntry, checked under SpecLookup. *)

\* The cache has an entry for today, as getCacheEntry's precondition
\* (main.go:561) sees it.
HoldsToday(c) == ~MapGet(c, today).isNil

\* Every time.Now() of the call fell on the date the process started on.
SameDay == \A i \in 1..Len(reads) : format(reads[i]) = today

\* The recorded dates after the target date today - d, up to today.
LaterDates(c) == {k \in DOMAIN c.m : k > today - d /\ k <= today}

\* The recorded dates before the target date today - d.
EarlierDates(c) == {k \in DOMAIN c.m : k < today - d}

\* C1: for d >= 0 and a cache holding today's entry, an entry recorded for
\* the date today - d is the one getCacheEntry returns.
ExactMatchPriority ==
    (pc = "done" /\ d >= 0 /\ HoldsToday(cache) /\ MapHas(cache, today - d))
        => ret = Result(cache.m[today - d], ErrNone)

\* C1 holds of the calls that read the clock on the start date only.
ExactMatchSameDay == SameDay => ExactMatchPriority

\* C2: for d >= 1, with today's entry and no entry for today - d,
\* getCacheEntry returns the entry of the earliest recorded date after the
\* target, up to today.
DescendingFallback ==
    (pc = "done" /\ d >= 1 /\ HoldsToday(cache) /\ ~MapHas(cache, today - d))
        => ret = Result(cache.m[Min(LaterDates(cache))], ErrNone)

\* C2 holds of the calls that read the clock on the start date only.
DescendingFallbackSameDay == SameDay => DescendingFallback

\* C3: for d >= 1, with today's entry and no entry for any date from
\* today - d to yesterday, getCacheEntry returns today's entry.
FinalFallback ==
    (pc = "done" /\ d >= 1 /\ HoldsToday(cache)
        /\ \A k \in (today - d)..(today - 1) : ~MapHas(cache, k))
        => ret = Result(cache.m[today], ErrNone)

\* C3 holds of the calls that read the clock on the start date only.
FinalFallbackSameDay == SameDay => FinalFallback

\* C4 as stated: with no entry for today - d, the lookback falls back to the
\* entry of the nearest earlier date.
NearestEarlierFallback ==
    (pc = "done" /\ d >= 0 /\ HoldsToday(cache) /\ ~MapHas(cache, today - d)
        /\ EarlierDates(cache) # {})
        => ret = Result(cache.m[Max(EarlierDates(cache))], ErrNone)

\* C4 amended: with today's entry and no entry for today - d, the lookback
\* returns without error the entry of a recorded date later than the target.
LaterFallback ==
    (pc = "done" /\ d >= 0 /\ HoldsToday(cache) /\ ~MapHas(cache, today - d))
        => /\ ret.err = ErrNone
           /\ \E k \in DOMAIN cache.m : k > today - d /\ ret.hashes = cache.m[k]

\* A fallback passed over an earlier entry and took that of a later date.
LaterFallbackWitness ==
    /\ pc = "done" /\ d >= 1 /\ HoldsToday(cache) /\ ~MapHas(cache, today - d)
    /\ EarlierDates(cache) # {}
    /\ ret.hashes # cache.m[Max(EarlierDates(cache))]
    /\ \E k \in LaterDates(cache) : ret = Result(cache.m[k], ErrNone)

\* C5: a negative d fails with the invalid-argument error and no list,
\* whatever the cache.
NegativeDaysRejected ==
    (pc = "done" /\ d < 0) => ret = Result(NilList, ErrInvalid)

\* A negative d was rejected on a nil cache.
NegativeDaysWitness ==
    pc = "done" /\ d < 0 /\ cache.isNil /\ ret.err = ErrInvalid

\* C6 as stated: a cache without today's entry fails with the precondition
\* error for every d.
MissingTodayFailsAnyD ==
    (pc = "done" /\ ~MapHas(cache, today)) => ret = Result(NilList, ErrPrecondition)

\* C6 amended: for d >= 0 a cache without today's entry (no key, or null)
\* fails with the precondition error and no list.
MissingTodayFails ==
    (pc = "done" /\ d >= 0 /\ ~HoldsToday(cache))
        => ret = Result(NilList, ErrPrecondition)

\* The precondition failed although the exact target date is recorded.
MissingTodayWitness ==
    /\ pc = "done" /\ d >= 1 /\ ~MapHas(cache, today)
    /\ MapHas(cache, today - d) /\ ~cache.m[today - d].isNil
    /\ ret.err = ErrPrecondition

\* C7: for d >= 0 and a cache holding today's entry, getCacheEntry returns
\* no error and a non-nil list.
Totality ==
    (pc = "done" /\ d >= 0 /\ HoldsToday(cache))
        => ret.err = ErrNone /\ ~ret.hashes.isNil

----------------------------------------------------------------------------
(* Claims about updateCache, checked under SpecUpdate. *)

\* updateCache returned the cache and no error.
Succeeded == pc = "done" /\ ~out.panic /\ out.err = ErrNone

\* The tip (first commit) the remote returned for each branch.
Tips == {answers[i].commits[1] : i \in 1..Len(branches)}

\* The elements of a sequence.
Elems(s) == {s[i] : i \in 1..Len(s)}

\* The ListCommits call for the i-th branch was made and failed: the
\* locator split and every earlier call returned a commit.
QueryFailed(i) ==
    /\ Len(Split(repoURL)) >= 2
    /\ answers[i] = AnsErr
    /\ \A j \in 1..(i - 1) : answers[j].kind = "ok" /\ answers[j].commits # <<>>

\* C8: after a successful updateCache today's entry holds exactly the tips
\* of the listed branches, each once: its length is the number of distinct
\* tips.
TodayEntryIsTipSet ==
    Succeeded =>
        /\ MapHas(cache, today)
        /\ ~cache.m[today].isNil
        /\ Elems(cache.m[today].elems) = Tips
        /\ Len(cache.m[today].elems) = Cardinality(Tips)

\* Two branches with the same tip left one identifier under today.
TodayEntryWitness ==
    /\ Succeeded
    /\ Len(branches) = 2
    /\ answers[1].commits[1] = answers[2].commits[1]
    /\ Len(cache.m[today].elems) = 1

\* C9: a successful updateCache writes the key today only: the keys are the
\* former ones and today, every other date keeps its value, and today's
\* entry holds the new tips alone, nothing of a prior entry.
OnlyTodayWritten ==
    Succeeded =>
        /\ out.cache = cache
        /\ DOMAIN cache.m = (DOMAIN cacheIn.m) \cup {today}
        /\ \A k \in DOMAIN cacheIn.m : k # today => cache.m[k] = cacheIn.m[k]
        /\ Elems(cache.m[today].elems) = Tips

\* A prior entry for today was replaced while yesterday's and tomorrow's
\* entries stayed.
OnlyTodayWitness ==
    /\ Succeeded
    /\ MapHas(cacheIn, today)
    /\ Elems(cacheIn.m[today].elems) # {}
    /\ Elems(cacheIn.m[today].elems) \cap Elems(cache.m[today].elems) = {}
    /\ MapHas(cacheIn, today - 1) /\ MapHas(cache, today - 1)
    /\ MapHas(cacheIn, today + 1)

\* C10: when the remote query fails for a branch, at any position,
\* updateCache returns an error and no cache, and the cache passed in keeps
\* its keys and values.
AllOrNothing ==
    (pc = "done" /\ \E i \in 1..Len(branches) : QueryFailed(i))
        => /\ out = Returned(NilMap, ErrRemote)
           /\ cache = cacheIn

\* The second branch failed after the first returned a tip, on a cache
\* without today's entry.
AllOrNothingWitness ==
    /\ pc = "done"
    /\ Len(branches) = 2
    /\ QueryFailed(2)
    /\ ~cacheIn.isNil /\ ~MapHas(cacheIn, today)
    /\ out.err = ErrRemote

----------------------------------------------------------------------------
(* Claims about createAffectedItem and updateAdvisory, checked under
   SpecAdvisory. *)

\* updateAdvisory returned the advisory and no error.
AdvisoryUpdated == pc = "saveAdvisory"

\* The events of the first range of the first affected item.
EventsOf(a) == a.Affected.elems[1].Ranges.elems[1].Events.elems

\* The commit identifiers of the fixed events of an event list.
FixedOf(ev) == [i \in 1..(Len(ev) - 1) |-> ev[i + 1].Fixed]

DistinctFixedEvents ==
    AdvisoryUpdated =>
        LET f == FixedOf(EventsOf(advisory))
        IN  \A i, j \in 1..Len(f) : f[i] = f[j] => i = j

\* C14: for freshnessDays >= 0 and a cache with today's entry updateAdvisory
\* returns an advisory with the policy's ID, PolicyLink and Description as
\* ID, Summary and Details and, as its whole Affected list, one item with
\* one "GIT" range on the policy's repository whose fixed events are the
\* entry getCacheEntry resolved.
UpdateAdvisoryFields ==
    (pc \in {"saveAdvisory", FailedAt.updateAdvisory} /\ d >= 0 /\ ~MapGet(cache, today).isNil)
        => /\ AdvisoryUpdated
           /\ ret.err = ErrNone
           /\ advisory.ID = policy.ID
           /\ advisory.Summary = policy.PolicyLink
           /\ advisory.Details = policy.Description
           /\ Len(advisory.Affected.elems) = 1
           /\ Len(advisory.Affected.elems[1].Ranges.elems) = 1
           /\ advisory.Affected.elems[1].Ranges.elems[1].Type = "GIT"
           /\ advisory.Affected.elems[1].Ranges.elems[1].Repo = policy.Repository
           /\ FixedOf(EventsOf(advisory)) = ret.hashes.elems

\* An older entry than today's was resolved and listed, replacing the
\* affected list of an earlier advisory.
UpdateAdvisoryWitness ==
    /\ AdvisoryUpdated
    /\ d >= 1
    /\ ret.hashes # cache.m[today]
    /\ advisoryIn = OldAdvisory
    /\ Len(EventsOf(advisory)) = 2
    /\ FixedOf(EventsOf(advisory)) # cache.m[today].elems

\* C18: two executions of updateCache with the same branch list and the same
\* remote answers write today's entry with the identifiers in the same
\* order.
StableOrdering ==
    (pc = "again" /\ ~out.panic /\ out.err = ErrNone /\ ~out2.panic /\ out2.err = ErrNone)
        => out2.cache.m[today] = out.cache.m[today]

----------------------------------------------------------------------------
(* Claims about runs of main, checked under Spec. *)

\* This run has written the advisory document.
AdvisoryWritten == pc \in {"saveCache", "done", FailedAt.saveCache}

\* The advisory a document holds, the zero value if it holds none.
AdvisoryIn(file) ==
    IF file.kind = "json" THEN unmarshalAdvisory(file.doc).val ELSE ZeroAdvisory

\* The cache a document holds, the empty one if it holds none.
CacheIn(file) ==
    IF file.kind = "json" THEN unmarshalCache(file.doc).val ELSE Map(<<>>)

\* C11 as stated, for the modified timestamp: when a run has ended, whether
\* its steps succeeded or not, the advisory document carries the run's
\* timestamp as its modified timestamp.
ModifiedEveryRun ==
    pc \in Ended
        => /\ advisoryFile.kind = "json"
           /\ AdvisoryIn(advisoryFile).Modified = nowTimestamp

\* C11: in every run that writes the advisory, the published timestamp
\* written is the one the document held before the run, unless it held none
\* (no document, or an empty published field), in which case it is the run's
\* timestamp; the modified timestamp written is the run's timestamp.
PublishedOnceModifiedAlways ==
    AdvisoryWritten =>
        LET before == AdvisoryIn(advisoryFile0)
            after == AdvisoryIn(advisoryFile)
        IN  /\ advisoryFile.kind = "json"
            /\ after.Modified = nowTimestamp
            /\ after.Published =
                  IF before.Published = NoStamp THEN nowTimestamp ELSE before.Published

\* A run rewrote an advisory that an earlier run of day 0 had created: it
\* kept that run's published timestamp and replaced its modified timestamp.
PublishedKeptWitness ==
    /\ pc = "done"
    /\ advisoryFile0.kind = "json"
    /\ AdvisoryIn(advisoryFile0).Published = Timestamp(0)
    /\ AdvisoryIn(advisoryFile0).Modified = Timestamp(0)
    /\ nowTimestamp # Timestamp(0)
    /\ AdvisoryIn(advisoryFile).Published = Timestamp(0)
    /\ AdvisoryIn(advisoryFile).Modified = nowTimestamp

\* C15: a run in which a step failed has modified neither the advisory
\* document nor the cache document.
NoPersistenceOnFailure ==
    (pc \in Ended /\ pc # "done")
        => advisoryFile = advisoryFile0 /\ cacheFile = cacheFile0

\* C16: after a run that completed, the cache document has a key for the
\* run's date, and its value is the set of tips the run observed.
SelfWrite ==
    pc = "done" =>
        /\ cacheFile.kind = "json"
        /\ unmarshalCache(cacheFile.doc).err = ErrNone
        /\ MapHas(CacheIn(cacheFile), today)
        /\ ~CacheIn(cacheFile).m[today].isNil
        /\ Elems(CacheIn(cacheFile).m[today].elems) = Tips

\* A run replaced the entry the cache document held for its date by the
\* tips it observed, and kept the entry of the day before.
SelfWriteWitness ==
    /\ pc = "done"
    /\ MapHas(CacheIn(cacheFile0), today)
    /\ MapHas(CacheIn(cacheFile0), today - 1)
    /\ Tips # {}
    /\ Elems(CacheIn(cacheFile0).m[today].elems) # Tips
    /\ Elems(CacheIn(cacheFile).m[today].elems) = Tips
    /\ MapHas(CacheIn(cacheFile), today - 1)

\* C17: whatever a run does, every date key the cache document held when
\* the run started is still in it, and the value under every date other
\* than the run's is the same.
AppendOnly ==
    (cacheFile0.kind = "json" /\ cacheFile0.doc.kind = "object")
        => /\ cacheFile.kind = "json"
           /\ cacheFile.doc.kind = "object"
           /\ \A k \in Names(cacheFile0.doc) :
                 /\ k \in Names(cacheFile.doc)
                 /\ k # today => Member(cacheFile.doc, k) = Member(cacheFile0.doc, k)

\* C19: a missing cache document loads as an empty, non-nil mapping without
\* an error; a missing advisory document loads without an error as an
\* advisory whose published timestamp is the run's and whose other fields
\* are empty; with a missing or malformed policy document loadPolicy fails
\* and the run writes neither document.
MissingDocuments ==
    /\ cacheFile0.kind = "absent" => pc # FailedAt.loadCache
    /\ (pc = "loadAdvisory" /\ cacheFile0.kind = "absent") => cache = Map(<<>>)
    /\ advisoryFile0.kind = "absent" => pc # FailedAt.loadAdvisory
    /\ (pc = "updateCache" /\ advisoryFile0.kind = "absent")
          => advisory = [ZeroAdvisory EXCEPT !.Published = nowTimestamp]
    /\ (policyFile.kind \in {"absent", "corrupt"} /\ pc # "loadPolicy")
          => /\ pc = FailedAt.loadPolicy
             /\ advisoryFile = advisoryFile0
             /\ cacheFile = cacheFile0

\* A run of a later day found neither document and loaded both.
MissingDocumentsWitness ==
    /\ pc = "updateCache"
    /\ today > 0
    /\ cacheFile0.kind = "absent"
    /\ advisoryFile0.kind = "absent"
    /\ cache = Map(<<>>)
    /\ advisory.Published = nowTimestamp

\* The entry the freshness threshold asks for: for d = 0 what this run
\* recorded, for d >= 1 what the cache document held for today - d when the
\* run started.
LaggedEntry ==
    IF d = 0 THEN cache.m[today] ELSE CacheIn(cacheFile0).m[today - d]

\* C22: when a run completes on day t and the cache document held an entry
\* for day t - d (d the freshness threshold, d >= 0), the fixed events of
\* the advisory it wrote are exactly the commit identifiers of that entry.
LagAcrossRuns ==
    (pc = "done" /\ d >= 0 /\ (d >= 1 => MapHas(CacheIn(cacheFile0), today - d)))
        => Elems(FixedOf(EventsOf(AdvisoryIn(advisoryFile)))) = Elems(LaggedEntry.elems)

\* C22 holds of the runs whose lookback reads the clock on the start date.
LagAcrossRunsSameDay == SameDay => LagAcrossRuns

\* C23: in a run the lookback is executed only after updateCache has
\* returned without an error, and it never fails with the error of a
\* missing entry for today; updateAdvisory fails only for a negative
\* freshness threshold.
LookbackAfterUpdate ==
    /\ ret # NoRet => ~out.panic /\ out.err = ErrNone
    /\ ret.err # ErrPrecondition
    /\ pc = FailedAt.updateAdvisory => d < 0 /\ ret.err = ErrInvalid

\* A run with no cache document and no branches recorded an empty entry for
\* today and its lookback returned it.
LookbackAfterUpdateWitness ==
    /\ pc = "saveAdvisory"
    /\ branches = <<>>
    /\ cacheFile0.kind = "absent"
    /\ cache.m[today] = List(<<>>)
    /\ ret = Result(List(<<>>), ErrNone)

\* C25: the date from which the run's lookback counts back d days, the date
\* of its first time.Now(), is the date today under which updateCache wrote
\* and against which the lookback checked its precondition.
OneToday ==
    (pc \in {"saveAdvisory", "saveCache", "done"} /\ reads # <<>>)
        => format(reads[1]) = today

----------------------------------------------------------------------------
(* Claims about saving and loading, checked under SpecRoundTrip. *)

\* C20: a cache and an advisory that were saved load, in a later process,
\* without an error and equal to what was saved: the same date keys, the
\* same lists (nil or not) of the same commit identifiers in the same order.
RoundTrip ==
    /\ pc \notin {FailedAt.loadCache, FailedAt.loadAdvisory}
    /\ pc \in {"loadAdvisory", "updateCache"} => cache = cacheIn
    /\ pc = "updateCache" => advisory = advisoryIn

\* A cache with a null entry, an empty entry and two commits out of sorted
\* order, and an advisory with fixed events, came back as they were saved.
RoundTripWitness ==
    /\ pc = "updateCache"
    /\ cache = cacheIn
    /\ advisory = advisoryIn
    /\ MapHas(cache, 0 - 1) /\ cache.m[0 - 1] = NilList
    /\ MapHas(cache, 0) /\ cache.m[0] = List(<<>>)
    /\ MapHas(cache, 1) /\ cache.m[1] = List(<<"sha2", "sha1">>)
    /\ ~advisory.Affected.isNil
    /\ Len(advisory.Affected.elems) = 1
    /\ ~advisory.Affected.elems[1].Ranges.isNil
    /\ Len(advisory.Affected.elems[1].Ranges.elems) = 1
    /\ FixedOf(EventsOf(advisory)) = <<"sha2", "sha1">>

----------------------------------------------------------------------------
(* Claims about what the advisory depends on, checked under SpecAdvisory. *)

\* C21 as stated: two updates with the same policy, cache, date and previous
\* published timestamp, on different previous advisories, leave identical
\* advisories.
DerivedState == pc = "compared" => out2.adv = advisory

\* C21: two updates with the same policy, cache, date and previous published
\* timestamp, on different previous advisories, leave advisories that agree
\* in every field but the schema version, which each keeps from its previous
\* advisory.
DerivedStateButSchema ==
    pc = "compared" =>
        /\ [out2.adv EXCEPT !.SchemaVersion = advisory.SchemaVersion] = advisory
        /\ out2.adv.SchemaVersion = out2.prior.SchemaVersion
        /\ advisory.SchemaVersion = advisoryIn.SchemaVersion

\* Two previous advisories that differ in identifier, modified timestamp,
\* summary, details and affected list gave the same advisory.
DerivedStateWitness ==
    /\ pc = "compared"
    /\ advisoryIn = OldAdvisory
    /\ out2.prior.ID # advisoryIn.ID
    /\ out2.prior.Modified # advisoryIn.Modified
    /\ out2.prior.Affected # advisoryIn.Affected
    /\ out2.adv = advisory

----------------------------------------------------------------------------
(* Claims about the window of getCacheEntry, checked under SpecLookup. *)

\* C24: for d >= 0 and a cache with an entry for today getCacheEntry returns
\* the value stored under a date key from today - d to today, and leaves
\* the cache as it was.
WindowBound ==
    (pc = "done" /\ d >= 0 /\ HoldsToday(cache))
        => /\ ret.err = ErrNone
           /\ \E k \in DOMAIN cache.m :
                 k >= today - d /\ k <= today /\ ret.hashes = cache.m[k]
           /\ cache = cacheIn

\* C24 holds of the calls that read the clock on the start date only.
WindowBoundSameDay == SameDay => WindowBound

----------------------------------------------------------------------------
(* Claims about how updateCache ends, checked under SpecUpdate. *)

\* C26: updateCache ends by returning the updated cache or an error; when a
\* branch's commit list is empty or the locator has fewer than two segments
\* it returns an error and leaves the cache as it was.
AlwaysReturns ==
    pc = "done" =>
        /\ ~out.panic
        /\ (\/ Len(Split(repoURL)) < 2
            \/ \E i \in 1..Len(branches) : answers[i] = AnsCommits(<<>>))
              => out.err # ErrNone /\ cache = cacheIn

====
